---- MODULE Spec2Model ----
(***************************************************************************)
(* Model of the Jira synchronisation agent (src/jira/mcp_agent.py):        *)
(* JiraMcpAgent.sync_from_payload and its helpers, run against a remote    *)
(* tracker whose responses are chosen nondeterministically.                *)
(***************************************************************************)
EXTENDS Integers, Sequences, FiniteSets, TLC

VARIABLES
    pc,             \* "idle" | "called" | "running" | "returned" | "raised"
    exc,            \* exception that left sync_from_payload, or None
    jira_payload,   \* argument of sync_from_payload, until it was read
    create_iter,    \* "for ticket in tickets_to_create": tickets still to come
    update_iter,    \* "for ticket in tickets_to_update": tickets still to come
    ticket,         \* the loop variable: the instruction handled last
    account_cache,  \* self._account_cache: insertion-ordered name -> id
    result,         \* the JiraSyncResult being built / returned
    calls,          \* remote calls issued by the current run, in order
    text,           \* _to_adf called on its own: the argument
    document        \* _to_adf called on its own: the value returned

\* the state of the agent and of the run in progress
agent_vars == <<pc, exc, jira_payload, create_iter, update_iter, ticket,
                account_cache, result, calls>>

vars == <<pc, exc, jira_payload, create_iter, update_iter, ticket,
          account_cache, result, calls, text, document>>

----------------------------------------------------------------------------
(* Bounds of the model *)

\* total number of elements in the two lists of one payload
MaxTickets == 2

\* number of characters of a text given to _to_adf on its own
MaxLen == 4

----------------------------------------------------------------------------
(* Values *)

\* Python's None (also what dict.get returns for an absent key)
None == "None"

\* bool(v) is False for None and for the empty string
Falsy(v) == v \in {None, ""}

Names == {"alice", "bob"}
IssueKeys == {"SCRUM-42", "SCRUM-43"}

\* a value that is neither a Mapping nor a Sequence (null, number, ...)
Other == [kind |-> "other"]
\* an absent key of the payload
Absent == [kind |-> "absent"]
\* a JSON null where a list may stand
Null == [kind |-> "null"]
\* an absent key where a string may stand (a key read with a default)
Unset == "<unset>"
\* a Python Sequence (list, tuple, str) with the given elements
SeqValue(items) == [kind |-> "seq", items |-> items]
\* a field mapping, kept as its (key, value) pairs in insertion order
MapValue(items) == [kind |-> "map", items |-> items]
\* a string as the value of a field
Str(s) == [kind |-> "str", str |-> s]

----------------------------------------------------------------------------
(* The instruction payload *)

ProjectKeys == {None, "SCRUM"}
Summaries == {"", "Fix bug"}
Descriptions == {None, "desc"}
Assignees == {None} \cup Names

\* the required fields of a create instruction that are missing or empty
Missing(t) == {f \in {"project_key", "summary", "description"} : Falsy(t[f])}

\* "issue_type", "priority": absent, null or given
IssueTypes == {Unset, None, "Bug"}
Priorities == {Unset, None, "High"}
\* "labels": absent, null or given
LabelLists == {Absent, Null, SeqValue(<<"backend">>)}

\* the optional fields of a create instruction are all absent, all null or
\* all given
OptionalsAbsent(t) ==
    t.issue_type = Unset /\ t.priority = Unset /\ t.labels = Absent
OptionalsNull(t) ==
    t.issue_type = None /\ t.priority = None /\ t.labels = Null
OptionalsGiven(t) ==
    t.issue_type = "Bug" /\ t.priority = "High" /\ t.labels.kind = "seq"

\* a create instruction (a JSON object); an absent key without a default
\* reads as None.  It lacks at most one required field, and one that lacks
\* a field names an assignee; one whose optional fields are null or given
\* names no assignee.
CreateTickets ==
    {t \in [kind : {"map"}, project_key : ProjectKeys, summary : Summaries,
            description : Descriptions, assignee : Assignees,
            issue_type : IssueTypes, priority : Priorities,
            labels : LabelLists] :
        \/ Missing(t) = {} /\ OptionalsAbsent(t)
        \/ /\ Missing(t) = {}
           /\ t.assignee = None
           /\ OptionalsNull(t) \/ OptionalsGiven(t)
        \/ /\ Cardinality(Missing(t)) = 1
           /\ t.assignee = "alice"
           /\ OptionalsAbsent(t)}

UpdateKeys == {None, "SCRUM-10"}
Comments == {"", "note"}
Statuses == {None, "Done"}
FieldMaps_Full ==
    MapValue(<<[name |-> "summary", value |-> Str("New title")],
               [name |-> "description", value |-> Str("New text")]>>)
\* "fields": null (or another non-mapping), an empty mapping, a mapping
FieldMaps == {Other, MapValue(<<>>), FieldMaps_Full}

\* an update instruction (a JSON object); an absent key reads as None.
\* One without an issue key asks for all three changes; one whose "fields"
\* is no mapping asks for nothing else.
UpdateTickets ==
    {t \in [kind : {"map"}, issue_key : UpdateKeys, comment : Comments,
            new_status : Statuses, fields : FieldMaps] :
        /\ Falsy(t.issue_key) =>
              ~Falsy(t.comment) /\ ~Falsy(t.new_status)
                 /\ t.fields = FieldMaps_Full
        /\ t.fields = Other => Falsy(t.comment) /\ Falsy(t.new_status)}

\* all sequences over S of length at most n
RECURSIVE SeqsUpTo(_, _)
SeqsUpTo(S, n) ==
    IF n = 0 THEN {<<>>}
    ELSE LET shorter == SeqsUpTo(S, n - 1)
         IN  shorter \cup {Append(s, x) : s \in shorter, x \in S}

\* what may stand under a key of the payload: nothing, a non-sequence, or
\* a sequence whose elements are instructions or non-mapping values
ListValues(Tickets, n) ==
    {Absent, Other} \cup {SeqValue(s) : s \in SeqsUpTo(Tickets \cup {Other}, n)}

Size(v) == IF v.kind = "seq" THEN Len(v.items) ELSE 0

Payloads ==
    {p \in [tickets_to_create : ListValues(CreateTickets, MaxTickets),
            tickets_to_update : ListValues(UpdateTickets, MaxTickets)] :
        Size(p.tickets_to_create) + Size(p.tickets_to_update) <= MaxTickets}

----------------------------------------------------------------------------
(* The remote tracker: every call gets a status code and a body *)

\* response.status_code; the code treats >= 300 as failure
StatusCodes == {200, 300}
FailureThreshold == 300

Response(status, body) == [status |-> status, body |-> body]

\* GET /user/search: the matching accounts, first match first
UserLists == {<<>>, <<"acc-2", "acc-1">>}
SearchResponses ==
    {Response(300, <<>>)} \cup {Response(200, u) : u \in UserLists}

\* POST /issue: the key assigned to the new issue
CreateResponses ==
    {Response(300, None)} \cup {Response(200, k) : k \in IssueKeys}

\* POST comment, POST transition, PUT fields: only the status matters
PlainResponses == {Response(s, None) : s \in StatusCodes}

\* GET transitions: the transitions valid for the issue's current state
Transition(id, to) == [id |-> id, to |-> to]
\* the last list: transition.get("id") finds no id in the first match
TransitionLists ==
    {<<Transition("11", "In Progress")>>,
     <<Transition("11", "In Progress"), Transition("31", "done"),
       Transition("41", "Done")>>,
     <<Transition(None, "Done"), Transition("41", "Done")>>}
TransitionResponses ==
    {Response(300, <<>>)} \cup {Response(200, t) : t \in TransitionLists}

\* one remote call as the session issued it
Call(op, req, resp) ==
    [op |-> op, req |-> req, status |-> resp.status, body |-> resp.body]

----------------------------------------------------------------------------
(* self._account_cache, a dict: (name, account_id) pairs in insertion order *)

CacheHas(cache, name) == \E k \in 1..Len(cache) : cache[k].name = name

\* self._account_cache[name], had a hit always read as unresolved
CacheGet_Unresolved(cache, name) == None

CacheGet(cache, name) ==
    LET k == CHOOSE k \in 1..Len(cache) : cache[k].name = name
    IN  cache[k].account_id

\* self._account_cache[name] = account_id, for a name not yet cached
CachePut(cache, name, account_id) ==
    Append(cache, [name |-> name, account_id |-> account_id])

----------------------------------------------------------------------------
(* _to_adf: plain text to a document of paragraphs.  A text is the        *)
(* sequence of its characters.                                             *)

\* the characters at which str.splitlines() ends a line, as far as they
\* occur ("\r\n" ends one line, not two)
LineBreaks == {"\n", "\r", "\f"}
\* the characters str.strip() removes, as far as they occur in a line
Whitespace == {" "}
Characters == {"a"} \cup Whitespace \cup LineBreaks

\* text.splitlines(), entered with the rest of the text and the characters
\* of the line begun: a line ends at a line break, which is dropped; the
\* end of the text ends a line only if characters are pending
RECURSIVE SplitFrom(_, _)
SplitFrom(rest, line) ==
    IF rest = <<>>
    THEN IF line = <<>> THEN <<>> ELSE <<line>>
    ELSE IF Len(rest) >= 2 /\ rest[1] = "\r" /\ rest[2] = "\n"
         THEN <<line>> \o SplitFrom(SubSeq(rest, 3, Len(rest)), <<>>)
         ELSE IF Head(rest) \in LineBreaks
              THEN <<line>> \o SplitFrom(Tail(rest), <<>>)
              ELSE SplitFrom(Tail(rest), Append(line, Head(rest)))

splitlines(txt) == SplitFrom(txt, <<>>)

\* not line.strip(): the line has nothing but whitespace
IsBlank(line) == \A k \in 1..Len(line) : line[k] \in Whitespace

TextNode(line) == [type |-> "text", text |-> line]
Paragraph(content) == [type |-> "paragraph", content |-> content]

\* _to_adf(text), had it left the blank lines out
to_adf_DropsBlank(txt) ==
    LET split == splitlines(txt)
        lines == IF split = <<>> THEN <<txt>> ELSE split
        paragraphs == [k \in 1..Len(SelectSeq(lines, LAMBDA l : ~IsBlank(l)))
                         |-> Paragraph(<<TextNode(
                               SelectSeq(lines, LAMBDA l : ~IsBlank(l))[k])>>)]
    IN  [type |-> "doc", version |-> 1,
         content |-> IF paragraphs = <<>> THEN <<Paragraph(<<>>)>>
                     ELSE paragraphs]

\* _to_adf(text)
to_adf(txt) ==
    LET split == splitlines(txt)
        \* text.splitlines() or [text]
        lines == IF split = <<>> THEN <<txt>> ELSE split
        paragraphs == [k \in 1..Len(lines) |->
                         IF ~IsBlank(lines[k])
                         THEN Paragraph(<<TextNode(lines[k])>>)
                         ELSE Paragraph(<<>>)]
    IN  [type |-> "doc", version |-> 1,
         content |-> IF paragraphs = <<>> THEN <<Paragraph(<<>>)>>
                     ELSE paragraphs]

\* str(value) as its characters, for the texts the instructions hold
Chars(s) ==
    CASE s = "desc" -> <<"d", "e", "s", "c">>
      [] s = "note" -> <<"n", "o", "t", "e">>
      [] s = "New text" -> <<"N", "e", "w", " ", "t", "e", "x", "t">>
      [] s = None -> <<"N", "o", "n", "e">>

\* the texts the instructions hold, and str(None)
InstructionTexts == {"desc", "note", "New text", None}

\* _to_adf(str(value)) for each of them
Documents == [s \in InstructionTexts |-> to_adf(Chars(s))]

----------------------------------------------------------------------------
(* The helpers of JiraMcpAgent.  Each takes the responses the remote would *)
(* give and returns its value together with the calls it issued.           *)

Failed_Above(resp) == resp.status > FailureThreshold
\* response.status_code >= 300
Failed(resp) == resp.status >= FailureThreshold

\* _lookup_account_id(name), had it cached only the names it resolved
lookup_account_id_PositiveOnly(cache, name, resp) ==
    IF CacheHas(cache, name)
    THEN [account_id |-> CacheGet(cache, name), cache |-> cache, calls |-> <<>>]
    ELSE LET call == Call("user_search", [query |-> name], resp)
             account_id == IF Failed(resp) \/ resp.body = <<>>
                           THEN None
                           ELSE resp.body[1]
         IN  [account_id |-> account_id,
              cache |-> IF account_id = None THEN cache
                        ELSE CachePut(cache, name, account_id),
              calls |-> <<call>>]

\* _lookup_account_id(name)
lookup_account_id(cache, name, resp) ==
    IF CacheHas(cache, name)
    THEN [account_id |-> CacheGet(cache, name), cache |-> cache, calls |-> <<>>]
    ELSE LET call == Call("user_search", [query |-> name], resp)
             account_id == IF Failed(resp) \/ resp.body = <<>>
                           THEN None
                           ELSE resp.body[1]
         IN  [account_id |-> account_id,
              cache |-> CachePut(cache, name, account_id),
              calls |-> <<call>>]

\* ticket.get(key, default): the default stands in for an absent key only
GetDefault(value, default) == IF value = Unset THEN default ELSE value

\* ticket.get("labels") or default: the default stands in for an absent
\* key, a null and an empty list
OrDefault(value, default) ==
    IF value.kind \in {"absent", "null"}
          \/ (value.kind = "seq" /\ value.items = <<>>)
    THEN default ELSE value

\* the "fields" object of the create request; assignee None: no such key
CreateFields(tkt, account_id) ==
    [project |-> tkt.project_key,
     summary |-> tkt.summary,
     description |-> Documents[tkt.description],
     issuetype |-> GetDefault(tkt.issue_type, "Task"),
     priority |-> GetDefault(tkt.priority, "Medium"),
     labels |-> OrDefault(tkt.labels, SeqValue(<<"pm-copilot">>)),
     assignee |-> IF Falsy(account_id) THEN None ELSE account_id]

\* all([project_key, summary, description])
HasRequired_NoDescription(tkt) ==
    ~Falsy(tkt.project_key) /\ ~Falsy(tkt.summary)
HasRequired(tkt) ==
    ~Falsy(tkt.project_key) /\ ~Falsy(tkt.summary) /\ ~Falsy(tkt.description)

\* _create_issue(ticket), had it given up on an instruction whose assignee
\* it could not resolve
create_issue_AbortsUnresolved(tkt, cache, env) ==
    IF ~HasRequired(tkt)
    THEN [action |-> <<>>, cache |-> cache, calls |-> <<>>]
    ELSE LET looked == IF Falsy(tkt.assignee)
                       THEN [account_id |-> None, cache |-> cache,
                             calls |-> <<>>]
                       ELSE lookup_account_id(cache, tkt.assignee,
                                              env.search)
             post == Call("create", CreateFields(tkt, looked.account_id),
                          env.create)
         IN  IF ~Falsy(tkt.assignee) /\ Falsy(looked.account_id)
             THEN [action |-> <<>>, cache |-> looked.cache,
                   calls |-> looked.calls]
             ELSE [action |-> IF Failed(env.create) THEN <<>>
                              ELSE <<[key |-> env.create.body,
                                      summary |-> tkt.summary]>>,
                   cache |-> looked.cache,
                   calls |-> looked.calls \o <<post>>]

\* _create_issue(ticket): action is None or a JiraAction
create_issue(tkt, cache, env) ==
    IF ~HasRequired(tkt)
    THEN [action |-> <<>>, cache |-> cache, calls |-> <<>>]
    ELSE LET looked == IF Falsy(tkt.assignee)
                       THEN [account_id |-> None, cache |-> cache,
                             calls |-> <<>>]
                       ELSE lookup_account_id(cache, tkt.assignee,
                                              env.search)
             post == Call("create", CreateFields(tkt, looked.account_id),
                          env.create)
         IN  [action |-> IF Failed(env.create) THEN <<>>
                         ELSE <<[key |-> env.create.body,
                                 summary |-> tkt.summary]>>,
              cache |-> looked.cache,
              calls |-> looked.calls \o <<post>>]

\* _add_comment(issue_key, comment), had it sent a failed comment again
add_comment_Retries(issue_key, comment, resp) ==
    LET call == Call("comment",
                     [issue |-> issue_key, body |-> Documents[comment]],
                     resp)
    IN  [ok |-> ~Failed(resp),
         calls |-> IF Failed(resp) THEN <<call, call>> ELSE <<call>>]

\* _add_comment(issue_key, comment)
add_comment(issue_key, comment, resp) ==
    [ok |-> ~Failed(resp),
     calls |-> <<Call("comment",
                      [issue |-> issue_key, body |-> Documents[comment]],
                      resp)>>]

\* str.lower() on the status names that occur
Lower(s) ==
    CASE s = "Done" -> "done"
      [] s = "In Progress" -> "in progress"
      [] OTHER -> s

\* the id of the first transition whose destination is spelt exactly as
\* the status asked for
RECURSIVE FirstMatch_CaseSensitive(_, _)
FirstMatch_CaseSensitive(transitions, new_status) ==
    IF transitions = <<>> THEN None
    ELSE IF Head(transitions).to = new_status
         THEN Head(transitions).id
         ELSE FirstMatch_CaseSensitive(Tail(transitions), new_status)

\* the id of the first transition whose destination matches, or None
RECURSIVE FirstMatch(_, _)
FirstMatch(transitions, new_status) ==
    IF transitions = <<>> THEN None
    ELSE IF Lower(Head(transitions).to) = Lower(new_status)
         THEN Head(transitions).id
         ELSE FirstMatch(Tail(transitions), new_status)

\* _transition_issue(issue_key, new_status), had it not looked at the
\* status of the submit call
transition_issue_SubmitUnchecked(issue_key, new_status, fetch, submit) ==
    LET get == Call("get_transitions", [issue |-> issue_key], fetch)
        transition_id == IF Failed(fetch) THEN None
                         ELSE FirstMatch(fetch.body, new_status)
        post == Call("post_transition",
                     [issue |-> issue_key, transition |-> transition_id],
                     submit)
    IN  IF Failed(fetch) \/ Falsy(transition_id)
        THEN [ok |-> FALSE, calls |-> <<get>>]
        ELSE [ok |-> TRUE, calls |-> <<get, post>>]

\* _transition_issue(issue_key, new_status)
transition_issue(issue_key, new_status, fetch, submit) ==
    LET get == Call("get_transitions", [issue |-> issue_key], fetch)
        transition_id == IF Failed(fetch) THEN None
                         ELSE FirstMatch(fetch.body, new_status)
        post == Call("post_transition",
                     [issue |-> issue_key, transition |-> transition_id],
                     submit)
    IN  IF Failed(fetch) \/ Falsy(transition_id)
        THEN [ok |-> FALSE, calls |-> <<get>>]
        ELSE [ok |-> ~Failed(submit), calls |-> <<get, post>>]

\* list(fields.keys())
Keys(fields) == [k \in 1..Len(fields.items) |-> fields.items[k].name]

\* isinstance(value, str)
IsStr(value) == "str" \in DOMAIN value

\* the mapping with its "description", if that is a string, converted
WithDescriptionConverted(fields) ==
    MapValue([k \in 1..Len(fields.items) |->
                IF fields.items[k].name = "description"
                      /\ IsStr(fields.items[k].value)
                THEN [name |-> "description",
                      value |-> Documents[fields.items[k].value.str]]
                ELSE fields.items[k]])

\* _update_fields(issue_key, fields), had it converted the description in
\* the mapping it was given
update_fields_InPlace(issue_key, fields, resp) ==
    LET payload_fields == WithDescriptionConverted(fields)
    IN  [ok |-> ~Failed(resp),
         fields |-> payload_fields,
         calls |-> <<Call("put_fields",
                          [issue |-> issue_key, fields |-> payload_fields],
                          resp)>>]

\* _update_fields(issue_key, fields): ok, the mapping it was given as the
\* call leaves it, and the call made
update_fields(issue_key, fields, resp) ==
    LET \* dict(fields): the description is converted in a copy
        payload_fields == WithDescriptionConverted(fields)
    IN  [ok |-> ~Failed(resp),
         fields |-> fields,
         calls |-> <<Call("put_fields",
                          [issue |-> issue_key, fields |-> payload_fields],
                          resp)>>]

\* a sub-operation that was not attempted
NotAttempted == [ok |-> FALSE, calls |-> <<>>]

\* any([action.comments_added, action.new_status, action.fields_updated])
Achieved_Always(action) == TRUE
\* the same, had the issue key counted as an effect
Achieved_Keyed(action) ==
    \/ ~Falsy(action.key)
    \/ action.comments_added # <<>>
    \/ ~Falsy(action.new_status)
    \/ action.fields_updated # <<>>
Achieved(action) ==
    \/ action.comments_added # <<>>
    \/ ~Falsy(action.new_status)
    \/ action.fields_updated # <<>>

\* _update_issue(ticket), had it given up on the status change after a
\* failed comment
update_issue_StopsAfterFailure(tkt, env) ==
    IF Falsy(tkt.issue_key)
    THEN [action |-> <<>>, calls |-> <<>>, ticket |-> tkt]
    ELSE LET commented == IF Falsy(tkt.comment) THEN NotAttempted
                          ELSE add_comment(tkt.issue_key, tkt.comment,
                                           env.comment)
             moved == IF Falsy(tkt.new_status)
                         \/ (~Falsy(tkt.comment) /\ ~commented.ok)
                      THEN NotAttempted
                      ELSE transition_issue(tkt.issue_key,
                                            tkt.new_status,
                                            env.fetch, env.submit)
             patched == IF tkt.fields.kind = "map"
                            /\ tkt.fields.items # <<>>
                        THEN update_fields(tkt.issue_key, tkt.fields,
                                           env.patch)
                        ELSE NotAttempted
             action == [key |-> tkt.issue_key,
                        comments_added |-> IF commented.ok
                                           THEN <<"comment">> ELSE <<>>,
                        new_status |-> IF moved.ok THEN tkt.new_status
                                       ELSE None,
                        fields_updated |-> IF patched.ok
                                           THEN Keys(tkt.fields)
                                           ELSE <<>>]
         IN  [action |-> IF Achieved(action) THEN <<action>> ELSE <<>>,
              calls |-> commented.calls \o moved.calls \o patched.calls,
              \* the instruction as the round leaves it: "fields" is the
              \* object _update_fields was given
              ticket |-> IF patched.calls # <<>>
                         THEN [tkt EXCEPT !.fields = patched.fields]
                         ELSE tkt]

\* _update_issue(ticket): action is None or a JiraUpdateAction; with it the
\* calls made and the instruction as the round leaves it
update_issue(tkt, env) ==
    IF Falsy(tkt.issue_key)
    THEN [action |-> <<>>, calls |-> <<>>, ticket |-> tkt]
    ELSE LET commented == IF Falsy(tkt.comment) THEN NotAttempted
                          ELSE add_comment(tkt.issue_key, tkt.comment,
                                           env.comment)
             moved == IF Falsy(tkt.new_status) THEN NotAttempted
                      ELSE transition_issue(tkt.issue_key,
                                            tkt.new_status,
                                            env.fetch, env.submit)
             patched == IF tkt.fields.kind = "map"
                            /\ tkt.fields.items # <<>>
                        THEN update_fields(tkt.issue_key, tkt.fields,
                                           env.patch)
                        ELSE NotAttempted
             action == [key |-> tkt.issue_key,
                        comments_added |-> IF commented.ok
                                           THEN <<"comment">> ELSE <<>>,
                        new_status |-> IF moved.ok THEN tkt.new_status
                                       ELSE None,
                        fields_updated |-> IF patched.ok
                                           THEN Keys(tkt.fields)
                                           ELSE <<>>]
         IN  [action |-> IF Achieved(action) THEN <<action>> ELSE <<>>,
              calls |-> commented.calls \o moved.calls \o patched.calls,
              \* the instruction as the round leaves it: "fields" is the
              \* object _update_fields was given
              ticket |-> IF patched.calls # <<>>
                         THEN [tkt EXCEPT !.fields = patched.fields]
                         ELSE tkt]

----------------------------------------------------------------------------
(* The agent *)

\* JiraSyncResult()
EmptyResult == [created |-> <<>>, updated |-> <<>>, unresolved_assignees |-> <<>>]

\* jira_payload.get(key, [])
Get(value) == IF value = Absent THEN SeqValue(<<>>) ELSE value

\* isinstance(value, Sequence)
IsSequence_NonEmpty(value) == value.kind = "seq" /\ value.items # <<>>
IsSequence(value) == value.kind = "seq"

\* the responses the remote may give to the calls of one instruction
CreateEnvs == [search : SearchResponses, create : CreateResponses]
UpdateEnvs == [comment : PlainResponses, fetch : TransitionResponses,
               submit : PlainResponses, patch : PlainResponses]

NoPayload == [tickets_to_create |-> Absent, tickets_to_update |-> Absent]
\* the loop variable before the first round
NoTicket == [kind |-> "unbound"]

\* _to_adf has not been called on its own
NoText == <<>>
NoDocument == [type |-> "none"]

\* a new agent, no call in progress
AgentInit ==
    /\ pc = "idle"
    /\ exc = None
    /\ jira_payload = NoPayload
    /\ create_iter = <<>>
    /\ update_iter = <<>>
    /\ ticket = NoTicket
    /\ account_cache = <<>>
    /\ result = EmptyResult
    /\ calls = <<>>

Init ==
    /\ AgentInit
    /\ text = NoText
    /\ document = NoDocument

\* JiraMcpAgent(config): a new agent replaces the one in use
NewAgent ==
    /\ pc = "idle"
    /\ account_cache # <<>>
    /\ account_cache' = <<>>
    /\ UNCHANGED <<pc, exc, jira_payload, create_iter, update_iter, ticket,
                   result, calls, text, document>>

\* a caller invokes agent.sync_from_payload(payload)
SyncCall(payload) ==
    /\ pc = "idle"
    /\ pc' = "called"
    /\ jira_payload' = payload
    /\ UNCHANGED <<exc, create_iter, update_iter, ticket, account_cache,
                   result, calls, text, document>>

\* sync_from_payload up to its first loop: read the two lists, check them
Validate ==
    /\ pc = "called"
    /\ LET tickets_to_create == Get(jira_payload.tickets_to_create)
           tickets_to_update == Get(jira_payload.tickets_to_update)
       IN  IF IsSequence(tickets_to_create) /\ IsSequence(tickets_to_update)
           THEN /\ pc' = "running"
                /\ create_iter' = tickets_to_create.items
                /\ update_iter' = tickets_to_update.items
                /\ UNCHANGED exc
           ELSE /\ pc' = "raised"
                /\ exc' = "ValueError"
                /\ UNCHANGED <<create_iter, update_iter>>
    /\ jira_payload' = NoPayload
    /\ UNCHANGED <<ticket, account_cache, result, calls, text, document>>

\* one round of "for ticket in tickets_to_create", had it put the new
\* action in front of result.created
CreateStep_Prepends ==
    /\ pc = "running"
    /\ create_iter # <<>>
    /\ ticket' = Head(create_iter)
    /\ IF ticket'.kind # "map"
       THEN /\ pc' = "raised"
            /\ exc' = "AttributeError"
            /\ UNCHANGED <<account_cache, result, calls>>
       ELSE \E env \in CreateEnvs :
              LET r == create_issue(ticket', account_cache, env)
              IN  /\ account_cache' = r.cache
                  /\ result' = [result EXCEPT
                                  !.created = r.action \o result.created]
                  /\ calls' = calls \o r.calls
                  /\ UNCHANGED <<pc, exc>>
    /\ create_iter' = Tail(create_iter)
    /\ UNCHANGED <<jira_payload, update_iter, text, document>>

\* one round of "for ticket in tickets_to_create"
CreateStep ==
    /\ pc = "running"
    /\ create_iter # <<>>
    /\ ticket' = Head(create_iter)
    /\ IF ticket'.kind # "map"
       THEN /\ pc' = "raised"
            /\ exc' = "AttributeError"
            /\ UNCHANGED <<account_cache, result, calls>>
       ELSE \E env \in CreateEnvs :
              LET r == create_issue(ticket', account_cache, env)
              IN  /\ account_cache' = r.cache
                  /\ result' = [result EXCEPT
                                  !.created = result.created \o r.action]
                  /\ calls' = calls \o r.calls
                  /\ UNCHANGED <<pc, exc>>
    /\ create_iter' = Tail(create_iter)
    /\ UNCHANGED <<jira_payload, update_iter, text, document>>

\* the second loop starts when the first one has run out
CreateLoopDone_Early == TRUE
CreateLoopDone == create_iter = <<>>

\* one round of "for ticket in tickets_to_update"
UpdateStep ==
    /\ pc = "running"
    /\ CreateLoopDone
    /\ update_iter # <<>>
    /\ IF Head(update_iter).kind # "map"
       THEN /\ pc' = "raised"
            /\ exc' = "AttributeError"
            /\ ticket' = Head(update_iter)
            /\ UNCHANGED <<result, calls>>
       ELSE \E env \in UpdateEnvs :
              LET r == update_issue(Head(update_iter), env)
              IN  /\ result' = [result EXCEPT
                                  !.updated = result.updated \o r.action]
                  /\ calls' = calls \o r.calls
                  /\ ticket' = r.ticket
                  /\ UNCHANGED <<pc, exc>>
    /\ update_iter' = Tail(update_iter)
    /\ UNCHANGED <<jira_payload, create_iter, account_cache, text, document>>

\* the names of the cache, resolved or not
Unresolved_All(cache) == [k \in 1..Len(cache) |-> cache[k].name]

\* [name for name, account_id in cache.items() if not account_id]
RECURSIVE Unresolved(_)
Unresolved(cache) ==
    IF cache = <<>> THEN <<>>
    ELSE (IF Falsy(Head(cache).account_id) THEN <<Head(cache).name>>
          ELSE <<>>) \o Unresolved(Tail(cache))

\* the end of sync_from_payload: collect the unresolved names and return
SyncReturn ==
    /\ pc = "running"
    /\ create_iter = <<>>
    /\ update_iter = <<>>
    /\ result' = [result EXCEPT
                    !.unresolved_assignees =
                        result.unresolved_assignees \o Unresolved(account_cache)]
    /\ pc' = "returned"
    /\ UNCHANGED <<exc, jira_payload, create_iter, update_iter, ticket,
                   account_cache, calls, text, document>>

\* the caller is done with the result (or the exception); the agent and its
\* cache stay
Release ==
    /\ pc \in {"returned", "raised"}
    /\ pc' = "idle"
    /\ exc' = None
    /\ create_iter' = <<>>
    /\ update_iter' = <<>>
    /\ ticket' = NoTicket
    /\ result' = EmptyResult
    /\ calls' = <<>>
    /\ UNCHANGED <<jira_payload, account_cache, text, document>>

Next ==
    \/ NewAgent
    \/ \E payload \in Payloads : SyncCall(payload)
    \/ Validate
    \/ CreateStep
    \/ UpdateStep
    \/ SyncReturn
    \/ Release

Spec == Init /\ [][Next]_vars

\* the interpreter runs a call to its end
FairSpec ==
    Spec /\ WF_vars(Validate) /\ WF_vars(CreateStep) /\ WF_vars(UpdateStep)
         /\ WF_vars(SyncReturn)

----------------------------------------------------------------------------
(* _to_adf on its own: a static method, called with any text *)

\* the texts of at most MaxLen characters
Texts == SeqsUpTo(Characters, MaxLen)

AdfInit ==
    /\ AgentInit
    /\ text \in Texts
    /\ document = NoDocument

\* JiraMcpAgent._to_adf(text)
Format ==
    /\ document = NoDocument
    /\ document' = to_adf(text)
    /\ UNCHANGED <<agent_vars, text>>

AdfNext == Format

AdfSpec == AdfInit /\ [][AdfNext]_vars

TypeOK ==
    /\ pc \in {"idle", "called", "running", "returned", "raised"}
    /\ exc \in {None, "ValueError", "AttributeError"}

----------------------------------------------------------------------------
(* Vocabulary of the properties *)

\* the calls the step under consideration issued
NewCalls == SubSeq(calls', Len(calls) + 1, Len(calls'))

CreateOps == {"user_search", "create"}
UpdateOps == {"comment", "get_transitions", "post_transition", "put_fields"}

AllMappings(items) == \A k \in 1..Len(items) : items[k].kind = "map"

\* both keys are present and hold sequences of instructions
WellFormed(payload) ==
    /\ payload.tickets_to_create.kind = "seq"
    /\ payload.tickets_to_update.kind = "seq"
    /\ AllMappings(payload.tickets_to_create.items)
    /\ AllMappings(payload.tickets_to_update.items)

\* a key is missing, or its value is not a sequence of instructions
Malformed(payload) == ~WellFormed(payload)

----------------------------------------------------------------------------
(* C1 *)

\* C1: sync raises the validation failure, before any remote call, exactly
\* when the payload lacks tickets_to_create or tickets_to_update or the
\* value under either key is not a sequence of instructions.
C1_RaisesIffMalformed ==
    [][pc = "called" =>
         ((pc' = "raised" /\ exc' = "ValueError" /\ calls' = <<>>)
            <=> Malformed(jira_payload))]_vars

----------------------------------------------------------------------------
(* C2 *)

----------------------------------------------------------------------------
(* C3 *)

\* C3: in one run no call made for a create instruction (user search,
\* create) comes after a call made for an update instruction (comment,
\* transition fetch, transition submit, field patch).
C3_CreatesBeforeUpdates ==
    \A a, b \in 1..Len(calls) :
        (a < b /\ calls[b].op \in CreateOps) => calls[a].op \in CreateOps

\* a run that made calls for a create and then for an update
C3_Witness ==
    \E a, b \in 1..Len(calls) :
        a < b /\ calls[a].op \in CreateOps /\ calls[b].op \in UpdateOps

\* a call the remote answered with success (a status below 300)
Succeeded(call) == call.status < 300

IsCreateTicket(t) == t.kind = "map" /\ "project_key" \in DOMAIN t
IsUpdateTicket(t) == t.kind = "map" /\ "issue_key" \in DOMAIN t

\* a create instruction with project key, summary and description
ValidCreate(t) ==
    /\ IsCreateTicket(t)
    /\ t.project_key \notin {None, ""}
    /\ t.summary \notin {None, ""}
    /\ t.description \notin {None, ""}

\* the next round handles a create instruction
CreateDue == pc = "running" /\ create_iter # <<>> /\ Head(create_iter).kind = "map"
\* the next round handles an update instruction
UpdateDue ==
    /\ pc = "running"
    /\ create_iter = <<>>
    /\ update_iter # <<>>
    /\ Head(update_iter).kind = "map"

SearchesFor(name) ==
    {k \in 1..Len(calls) :
        calls[k].op = "user_search" /\ calls[k].req.query = name}

----------------------------------------------------------------------------
(* C4 *)

\* C4: the identity cache is scoped to one run: every sync call starts with
\* an empty cache, and every name a run reports as unresolved was looked up
\* remotely in that very run.
C4_CacheScopedToRun ==
    /\ pc = "called" => account_cache = <<>>
    /\ pc = "returned" =>
          \A k \in 1..Len(result.unresolved_assignees) :
              SearchesFor(result.unresolved_assignees[k]) # {}

----------------------------------------------------------------------------
(* C5 *)

\* C5: within one run at most one user-search call is issued for any one
\* name, whatever the outcome of the first lookup.
C5_AtMostOneSearchPerName ==
    \A name \in Names : Cardinality(SearchesFor(name)) <= 1

\* two issues were created for the same resolved assignee after a single
\* search, and a second name was looked up once and not found
C5_Witness ==
    /\ \E a, b \in 1..Len(calls) :
          /\ a < b
          /\ calls[a].op = "create"
          /\ calls[b].op = "create"
          /\ calls[a].req.assignee = "acc-2"
          /\ calls[b].req.assignee = "acc-2"
    /\ \E name \in Names : Cardinality(SearchesFor(name)) = 1
    /\ Len(account_cache) >= 1

----------------------------------------------------------------------------
(* C6 *)

\* C6: a create instruction with project key, summary and description makes
\* one create call; if the remote reports success, exactly one action with
\* the instruction's summary and the returned key is appended to
\* result.created, and if it reports failure, result.created stays as it was.
C6_CreatedIffRemoteSuccess ==
    [][(CreateDue /\ ValidCreate(Head(create_iter))) =>
         /\ NewCalls # <<>>
         /\ LET post == NewCalls[Len(NewCalls)]
            IN  /\ post.op = "create"
                /\ result'.created =
                      IF Succeeded(post)
                      THEN Append(result.created,
                                  [key |-> post.body,
                                   summary |-> Head(create_iter).summary])
                      ELSE result.created
         /\ result'.updated = result.updated]_vars

\* one creation succeeded and was recorded, another one failed
C6_Witness ==
    /\ IsCreateTicket(ticket)
    /\ Len(result.created) = 1
    /\ \E a, b \in 1..Len(calls) :
          /\ calls[a].op = "create" /\ Succeeded(calls[a])
          /\ calls[a].body = result.created[1].key
          /\ calls[b].op = "create" /\ ~Succeeded(calls[b])

----------------------------------------------------------------------------
(* C7 *)

\* C7: a create instruction whose project key, summary or description is
\* missing or empty causes no remote call (no user search, no create) and
\* leaves the identity cache and the result unchanged.
C7_InvalidCreateDoesNothing ==
    [][(CreateDue /\ ~ValidCreate(Head(create_iter))) =>
         /\ calls' = calls
         /\ account_cache' = account_cache
         /\ result' = result]_vars

\* an instruction that lacks a required field but names an assignee was
\* handled, and the run has made no call
C7_Witness ==
    /\ pc = "running"
    /\ IsCreateTicket(ticket)
    /\ ~ValidCreate(ticket)
    /\ ticket.assignee \in Names
    /\ calls = <<>>
    /\ account_cache = <<>>
    /\ result = EmptyResult

\* an update instruction that names its issue
KeyedUpdate(t) == IsUpdateTicket(t) /\ t.issue_key \notin {None, ""}

\* the step under consideration made a call of this kind that succeeded
NewSuccess(op) ==
    \E k \in 1..Len(NewCalls) : NewCalls[k].op = op /\ Succeeded(NewCalls[k])

\* the names of a field mapping, in its order
FieldNames(fields) == [k \in 1..Len(fields.items) |-> fields.items[k].name]

\* "fields" is a mapping that is not empty
HasPatch(t) == t.fields.kind = "map" /\ t.fields.items # <<>>

----------------------------------------------------------------------------
(* C8 *)

\* C8: an update instruction with an issue key adds one entry to
\* result.updated if a comment, a transition submit or a field patch of it
\* succeeded, and adds none if all it attempted failed or it attempted
\* nothing.
C8_UpdatedIffSomeSuccess ==
    [][(UpdateDue /\ KeyedUpdate(Head(update_iter))) =>
         LET achieved == \/ NewSuccess("comment")
                         \/ NewSuccess("post_transition")
                         \/ NewSuccess("put_fields")
             before == Len(result.updated)
         IN  /\ Len(result'.updated) = before + (IF achieved THEN 1 ELSE 0)
             /\ SubSeq(result'.updated, 1, before) = result.updated
             /\ result'.created = result.created]_vars

\* an instruction attempted a comment, a status change and a patch, every
\* call failed, and nothing was recorded
C8_Witness ==
    /\ KeyedUpdate(ticket)
    /\ Len(calls) = 3
    /\ \A k \in 1..Len(calls) : calls[k].op \in UpdateOps /\ ~Succeeded(calls[k])
    /\ result.updated = <<>>

----------------------------------------------------------------------------
(* C9 *)

\* C9: the entry an update instruction adds to result.updated carries the
\* instruction's issue key, a comment marker iff the comment call succeeded,
\* the requested status name iff the transition submit succeeded (not set
\* otherwise) and the names of the patched fields iff the field patch
\* succeeded (none otherwise).
C9_ActionRecordsSuccesses ==
    [][(UpdateDue /\ KeyedUpdate(Head(update_iter))
          /\ Len(result'.updated) > Len(result.updated)) =>
         LET t == Head(update_iter)
             action == result'.updated[Len(result'.updated)]
         IN  /\ action.key = t.issue_key
             /\ action.comments_added # <<>> <=> NewSuccess("comment")
             /\ action.new_status = IF NewSuccess("post_transition")
                                    THEN t.new_status ELSE None
             /\ action.fields_updated = IF NewSuccess("put_fields")
                                        THEN FieldNames(t.fields) ELSE <<>>]_vars

\* comment, status change and patch were attempted, only the transition
\* submit failed, and the entry has the comment and the fields but no status
C9_Witness ==
    /\ KeyedUpdate(ticket)
    /\ Len(calls) = 4
    /\ calls[1].op = "comment" /\ Succeeded(calls[1])
    /\ calls[2].op = "get_transitions" /\ Succeeded(calls[2])
    /\ calls[3].op = "post_transition" /\ ~Succeeded(calls[3])
    /\ calls[4].op = "put_fields" /\ Succeeded(calls[4])
    /\ Len(result.updated) = 1
    /\ result.updated[1].comments_added # <<>>
    /\ result.updated[1].fields_updated # <<>>
    /\ result.updated[1].new_status = None

----------------------------------------------------------------------------
(* C10 *)

\* C10: the calls of one update instruction come in the order comment,
\* transition fetch (and submit), field patch; the comment call is made
\* exactly when a comment is given, the transition fetch exactly when a
\* status is given, the field patch exactly when a non-empty field mapping
\* is given, whatever became of the earlier calls.
C10_SubOperationsInOrder ==
    [][(UpdateDue /\ KeyedUpdate(Head(update_iter))) =>
         LET t == Head(update_iter)
             ops == [k \in 1..Len(NewCalls) |-> NewCalls[k].op]
             comment == IF t.comment \notin {None, ""}
                        THEN <<"comment">> ELSE <<>>
             patch == IF HasPatch(t) THEN <<"put_fields">> ELSE <<>>
         IN  IF t.new_status \in {None, ""}
             THEN ops = comment \o patch
             ELSE \/ ops = comment \o <<"get_transitions">> \o patch
                  \/ ops = comment \o <<"get_transitions", "post_transition">>
                              \o patch]_vars

\* the comment failed and the transition fetch failed, and the field patch
\* was still sent
C10_Witness ==
    /\ KeyedUpdate(ticket)
    /\ Len(calls) = 3
    /\ calls[1].op = "comment" /\ ~Succeeded(calls[1])
    /\ calls[2].op = "get_transitions" /\ ~Succeeded(calls[2])
    /\ calls[3].op = "put_fields"

----------------------------------------------------------------------------
(* C11 *)

\* spellings of one status name that differ in case only
CaseVariants == {{"Done", "done"}, {"In Progress", "in progress"}}
SameIgnoringCase(a, b) == a = b \/ \E v \in CaseVariants : {a, b} \subseteq v

\* the places of a fetched list whose destination is the status asked for
MatchingPlaces(transitions, status) ==
    {k \in 1..Len(transitions) : SameIgnoringCase(transitions[k].to, status)}

Least(S) == CHOOSE m \in S : \A x \in S : m <= x

\* the step under consideration recorded a new status
StatusRecorded ==
    /\ Len(result'.updated) > Len(result.updated)
    /\ result'.updated[Len(result'.updated)].new_status # None

\* C11: a transition-submit call comes right after the transition fetch of
\* the same update instruction, which succeeded and returned a transition
\* whose destination equals the requested status ignoring case, and it
\* carries the id of the first such transition of the list; if the fetch
\* failed or no destination matches, no transition-submit call is made and
\* no status is recorded.
C11_SubmitAfterMatchingFetch ==
    [][(UpdateDue /\ KeyedUpdate(Head(update_iter))) =>
         LET t == Head(update_iter)
             posts == {k \in 1..Len(NewCalls) :
                          NewCalls[k].op = "post_transition"}
             fetches == {k \in 1..Len(NewCalls) :
                            NewCalls[k].op = "get_transitions"}
         IN  /\ \A k \in posts :
                   /\ k - 1 \in fetches
                   /\ Succeeded(NewCalls[k - 1])
                   /\ NewCalls[k - 1].req.issue = t.issue_key
                   /\ NewCalls[k].req.issue = t.issue_key
                   /\ LET places == MatchingPlaces(NewCalls[k - 1].body,
                                                   t.new_status)
                      IN  /\ places # {}
                          /\ NewCalls[k].req.transition =
                                NewCalls[k - 1].body[Least(places)].id
             /\ \A k \in fetches :
                   (\/ ~Succeeded(NewCalls[k])
                    \/ MatchingPlaces(NewCalls[k].body, t.new_status) = {})
                      => posts = {} /\ ~StatusRecorded
             /\ fetches = {} => posts = {} /\ ~StatusRecorded]_vars

\* the fetch returned a transition to "done" ahead of one to "Done", and
\* the submit for the status "Done" carries the id of the former
C11_Witness ==
    /\ KeyedUpdate(ticket)
    /\ ticket.new_status = "Done"
    /\ \E k \in 1..Len(calls) - 1 :
          /\ calls[k].op = "get_transitions"
          /\ Succeeded(calls[k])
          /\ Len(calls[k].body) = 3
          /\ calls[k + 1].op = "post_transition"
          /\ calls[k + 1].req.transition = "31"

----------------------------------------------------------------------------
(* C12 *)

\* comment, new_status and fields are each absent, null or empty
NothingAsked(t) ==
    /\ t.comment \in {None, ""}
    /\ t.new_status \in {None, ""}
    /\ ~HasPatch(t)

\* C12: an update instruction with an issue key but with none of comment,
\* new_status and fields set issues no remote call and adds no action.
C12_EmptyUpdateDoesNothing ==
    [][(UpdateDue /\ KeyedUpdate(Head(update_iter))
          /\ NothingAsked(Head(update_iter))) =>
         /\ calls' = calls
         /\ result' = result
         /\ pc' = "running"]_vars

\* an update instruction with a key and an empty field mapping was handled
\* after one that succeeded; the run made no call for it and recorded
\* nothing for it
C12_Witness ==
    /\ pc = "running"
    /\ update_iter = <<>>
    /\ KeyedUpdate(ticket)
    /\ NothingAsked(ticket)
    /\ ticket.fields.kind = "map"
    /\ Len(calls) = 1
    /\ Succeeded(calls[1])
    /\ Len(result.updated) = 1

----------------------------------------------------------------------------
(* C13 *)

\* the next round handles a valid create instruction that names an assignee
NamedCreateDue ==
    /\ CreateDue
    /\ ValidCreate(Head(create_iter))
    /\ Head(create_iter).assignee \in Names

\* what resolving the name of the step's instruction produced: the first
\* account of a successful, non-empty search made in this step, else what
\* the cache held for the name, else nothing
Resolution ==
    LET name == Head(create_iter).assignee
    IN  IF NewCalls # <<>> /\ NewCalls[1].op = "user_search"
        THEN IF Succeeded(NewCalls[1]) /\ NewCalls[1].body # <<>>
             THEN NewCalls[1].body[1]
             ELSE None
        ELSE IF \E k \in 1..Len(account_cache) : account_cache[k].name = name
             THEN LET k == CHOOSE k \in 1..Len(account_cache) :
                               account_cache[k].name = name
                  IN  account_cache[k].account_id
             ELSE None

\* C13: a valid create instruction that names an assignee always ends in a
\* create request, whether or not the name was resolved; the request has an
\* assignee exactly when the resolution produced an identifier, and then it
\* is that identifier.
C13_UnresolvedStillCreates ==
    [][NamedCreateDue =>
         /\ NewCalls # <<>>
         /\ LET post == NewCalls[Len(NewCalls)]
            IN  /\ post.op = "create"
                /\ post.req.assignee = Resolution]_vars

\* the search for the assignee failed, and the issue was created all the
\* same, without an assignee
C13_Witness ==
    /\ IsCreateTicket(ticket)
    /\ ticket.assignee \in Names
    /\ Len(calls) = 2
    /\ calls[1].op = "user_search" /\ ~Succeeded(calls[1])
    /\ calls[2].op = "create" /\ Succeeded(calls[2])
    /\ calls[2].req.assignee = None
    /\ Len(result.created) = 1

----------------------------------------------------------------------------
(* C14 *)

\* C14: the create request of a valid create instruction carries issue type
\* "Task" when the instruction's issue type is missing or null, priority
\* "Medium" when its priority is missing or null, the one label "pm-copilot"
\* when its labels are missing or null, and otherwise the values the
\* instruction gives.
C14_DefaultsApplied ==
    [][(CreateDue /\ ValidCreate(Head(create_iter))) =>
         /\ NewCalls # <<>>
         /\ LET t == Head(create_iter)
                post == NewCalls[Len(NewCalls)]
            IN  /\ post.op = "create"
                /\ post.req.issuetype =
                      IF t.issue_type \in {Unset, None} THEN "Task"
                      ELSE t.issue_type
                /\ post.req.priority =
                      IF t.priority \in {Unset, None} THEN "Medium"
                      ELSE t.priority
                /\ post.req.labels =
                      IF t.labels \in {Absent, Null}
                      THEN SeqValue(<<"pm-copilot">>)
                      ELSE t.labels]_vars

----------------------------------------------------------------------------
(* C15 *)

\* the names a returned result reports as unresolved
Reported ==
    {result.unresolved_assignees[k] :
        k \in 1..Len(result.unresolved_assignees)}

\* a user search that produced no identifier
FailedSearch(call) ==
    call.op = "user_search" /\ (~Succeeded(call) \/ call.body = <<>>)

\* C15: when sync returns, unresolved_assignees holds no name twice and
\* holds exactly the names whose cache entry is negative; every name whose
\* search failed or found nobody in this run is in it, and no name whose
\* search produced an identifier is.
C15_UnresolvedAreNegativeEntries ==
    pc = "returned" =>
        /\ \A a, b \in 1..Len(result.unresolved_assignees) :
              a # b => result.unresolved_assignees[a]
                          # result.unresolved_assignees[b]
        /\ Reported =
              {account_cache[k].name : k \in
                  {j \in 1..Len(account_cache) :
                      account_cache[j].account_id \in {None, ""}}}
        /\ \A k \in 1..Len(calls) :
              calls[k].op = "user_search" =>
                  (FailedSearch(calls[k]) <=> calls[k].req.query \in Reported)

\* a run looked up two names, one search failed and the other found an
\* account, and the result reports the former only
C15_Witness ==
    /\ pc = "returned"
    /\ Len(calls) = 4
    /\ calls[1].op = "user_search" /\ ~Succeeded(calls[1])
    /\ calls[3].op = "user_search" /\ ~FailedSearch(calls[3])
    /\ result.unresolved_assignees = <<calls[1].req.query>>
    /\ calls[3].req.query # calls[1].req.query

----------------------------------------------------------------------------
(* C16 *)

\* the places where a line of the text ends: at a line break ("\r\n" being
\* one break, ending at its "\n"), and behind the last character if that is
\* no line break
LineEnds(txt) ==
    {p \in 1..Len(txt) :
        /\ txt[p] \in LineBreaks
        /\ ~(txt[p] = "\r" /\ p < Len(txt) /\ txt[p + 1] = "\n")}
      \cup (IF txt # <<>> /\ txt[Len(txt)] \notin LineBreaks
            THEN {Len(txt) + 1} ELSE {})

\* the k-th line of the text, without its line break
Line(txt, k) ==
    LET ends == LineEnds(txt)
        e == CHOOSE p \in ends : Cardinality({q \in ends : q < p}) = k - 1
        earlier == {q \in ends : q < e}
        first == IF earlier = {} THEN 1
                 ELSE (CHOOSE q \in earlier : \A r \in earlier : r <= q) + 1
        last == IF e <= Len(txt) /\ e > 1 /\ txt[e] = "\n" /\ txt[e - 1] = "\r"
                THEN e - 2 ELSE e - 1
    IN  SubSeq(txt, first, last)

\* the line is empty or has whitespace only
BlankLine(line) == \A k \in 1..Len(line) : line[k] = " "

\* C16: the formatter returns a document for every text; the document has
\* one paragraph per line of the text, in the order of the lines: a line
\* that is not blank gives a paragraph with one text node holding the
\* line, a blank line gives a paragraph without content; the empty text
\* gives one paragraph without content, so there is always a paragraph.
C16_OneParagraphPerLine ==
    document # NoDocument =>
        /\ document.type = "doc"
        /\ Len(document.content) >= 1
        /\ text = <<>> =>
              document.content = <<[type |-> "paragraph", content |-> <<>>]>>
        /\ text # <<>> =>
              /\ Len(document.content) = Cardinality(LineEnds(text))
              /\ \A k \in 1..Len(document.content) :
                    document.content[k] =
                      IF BlankLine(Line(text, k))
                      THEN [type |-> "paragraph", content |-> <<>>]
                      ELSE [type |-> "paragraph",
                            content |-> <<[type |-> "text",
                                           text |-> Line(text, k)]>>]

\* a line of text followed by a line of whitespace was formatted into two
\* paragraphs, the second without content
C16_Witness ==
    /\ text = <<"a", "\n", " ", "\r">>
    /\ document # NoDocument
    /\ Len(document.content) = 2
    /\ document.content[1].content # <<>>
    /\ document.content[2].content = <<>>

----------------------------------------------------------------------------
(* C17 *)

\* the longer list is the shorter one, or the shorter one with one entry
\* appended
GrownByAtMostOne(before, after) ==
    /\ Len(after) \in {Len(before), Len(before) + 1}
    /\ SubSeq(after, 1, Len(before)) = before

\* C17: the instructions are handled in the order of their lists, and each
\* round appends at most one entry, behind the entries that are there:
\* result.created gets an entry, with the instruction's summary, exactly
\* when a create instruction was created successfully; result.updated gets
\* an entry only from an update instruction one of whose calls succeeded,
\* with that instruction's issue key; a skipped or failed instruction
\* changes neither list.
C17_EntriesInInstructionOrder ==
    [][pc = "running" =>
         /\ GrownByAtMostOne(result.created, result'.created)
         /\ GrownByAtMostOne(result.updated, result'.updated)
         /\ Len(result'.created) > Len(result.created) <=>
                (CreateDue /\ NewSuccess("create"))
         /\ Len(result'.created) > Len(result.created) =>
                /\ result'.created[Len(result'.created)].summary
                      = Head(create_iter).summary
                /\ result'.created[Len(result'.created)].key
                      = NewCalls[Len(NewCalls)].body
         /\ Len(result'.updated) > Len(result.updated) =>
                /\ UpdateDue
                /\ \E op \in UpdateOps : NewSuccess(op)
                /\ result'.updated[Len(result'.updated)].key
                      = Head(update_iter).issue_key
         /\ create_iter # <<>> =>
                create_iter' = Tail(create_iter) /\ update_iter' = update_iter
         /\ (create_iter = <<>> /\ update_iter # <<>>) =>
                update_iter' = Tail(update_iter)]_vars

\* the first of two creations got the key SCRUM-43 and the second got
\* SCRUM-42, and result.created has them in that order
C17_Witness ==
    /\ pc = "returned"
    /\ Len(calls) = 2
    /\ calls[1].op = "create" /\ calls[1].body = "SCRUM-43"
    /\ calls[2].op = "create" /\ calls[2].body = "SCRUM-42"
    /\ Len(result.created) = 2
    /\ result.created[1].key = "SCRUM-43"
    /\ result.created[2].key = "SCRUM-42"

----------------------------------------------------------------------------
(* C18 *)

AllOps == CreateOps \cup UpdateOps

\* C18: the round of one instruction issues each kind of call at most once
\* (one create, one comment, one transition fetch, one transition submit,
\* one field patch, one user search), also when the call failed.
C18_NoCallTwice ==
    [][pc = "running" =>
         \A op \in AllOps :
             Cardinality({k \in 1..Len(NewCalls) : NewCalls[k].op = op}) <= 1]_vars

\* a run of one update instruction ended after its comment, its transition
\* fetch and its field patch had each failed once
C18_Witness ==
    /\ pc = "returned"
    /\ KeyedUpdate(ticket)
    /\ Len(calls) = 3
    /\ calls[1].op = "comment" /\ ~Succeeded(calls[1])
    /\ calls[2].op = "get_transitions" /\ ~Succeeded(calls[2])
    /\ calls[3].op = "put_fields" /\ ~Succeeded(calls[3])

----------------------------------------------------------------------------
(* C19 *)

\* the cache entry of a name
EntryOf(cache, name) ==
    cache[CHOOSE k \in 1..Len(cache) : cache[k].name = name]

\* C19: during a run a cache entry, once written, is neither changed nor
\* removed, and the create request of an instruction that names an
\* assignee carries what the cache holds for the name: the identifier, or
\* no assignee for a negative entry.  So all create requests of the run for
\* one name agree, whatever the user search would answer later.
C19_ResolutionStable ==
    [][pc = "running" =>
         /\ Len(account_cache') >= Len(account_cache)
         /\ SubSeq(account_cache', 1, Len(account_cache)) = account_cache
         /\ NamedCreateDue =>
               LET name == Head(create_iter).assignee
                   post == NewCalls[Len(NewCalls)]
               IN  /\ \E k \in 1..Len(account_cache') :
                         account_cache'[k].name = name
                   /\ post.op = "create"
                   /\ post.req.assignee =
                         IF EntryOf(account_cache', name).account_id
                               \in {None, ""}
                         THEN None
                         ELSE EntryOf(account_cache', name).account_id]_vars

\* two issues were created for one name after a single search that found
\* nobody, both without an assignee
C19_Witness ==
    /\ IsCreateTicket(ticket)
    /\ ticket.assignee \in Names
    /\ account_cache = <<[name |-> ticket.assignee, account_id |-> None]>>
    /\ Len(calls) = 3
    /\ calls[1].op = "user_search" /\ calls[1].req.query = ticket.assignee
    /\ calls[2].op = "create" /\ calls[2].req.assignee = None
    /\ calls[3].op = "create" /\ calls[3].req.assignee = None

----------------------------------------------------------------------------
(* C20 *)

\* C20: the round of an instruction leaves the instruction as it was, also
\* an update instruction whose "fields" had its description converted for
\* the field-patch request, and leaves the instructions still to come as
\* they were.
C20_PayloadUnchanged ==
    [][pc = "running" =>
         /\ create_iter # <<>> =>
               /\ ticket' = Head(create_iter)
               /\ create_iter' = Tail(create_iter)
               /\ update_iter' = update_iter
         /\ (create_iter = <<>> /\ update_iter # <<>>) =>
               /\ ticket' = Head(update_iter)
               /\ update_iter' = Tail(update_iter)]_vars

\* a field patch went out with the description as a document, and the
\* instruction still has it as the string it was
C20_Witness ==
    /\ KeyedUpdate(ticket)
    /\ ticket.fields = FieldMaps_Full
    /\ calls # <<>>
    /\ LET put == calls[Len(calls)]
       IN  /\ put.op = "put_fields"
           /\ put.req.fields.items[2].name = "description"
           /\ put.req.fields.items[2].value.type = "doc"
           /\ put.req.fields.items[1] = ticket.fields.items[1]

====
